---- MODULE Spec2Model ----
(***************************************************************************)
(* couchbeans.client.CouchClient: the query executor (__couch_query) with  *)
(* its retry loop, and the document operations built on it.  The transport *)
(* (requests.Session) is the environment: every attempt is answered by a   *)
(* connection error, a timeout, or a response with a status and a body.    *)
(* In SpecWriters and SpecScan the responses come from a server that keeps  *)
(* the documents and checks revisions, shared with another client.          *)
(***************************************************************************)
EXTENDS Integers, Sequences, FiniteSets, TLC

VARIABLES
    max_retries,       \* CouchClient.__max_retries
    connection_timeout,\* CouchClient.__connection_timeout
    selector_default,  \* the default-argument dicts of find and find_all
    pc,                \* "idle" | "query" (inside __couch_query) | "done"
    op,                \* the public operation in progress and its arguments
    frame,             \* the operation's locals and the dicts it holds by reference
    request,           \* the arguments of the __couch_query call in progress
    rt,                \* which round trip of the operation this is (1, 2)
    try_n,             \* __couch_query's try_n
    log,               \* every transport attempt of the operation, with its outcome
    outcomes,          \* what each finished __couch_query call returned or raised
    result,            \* what the operation returned or raised
    changed,           \* max_retries was set while the operation was in progress
    at_start,          \* the configuration when the __couch_query call in progress began
    store,             \* the documents of the database on the server
    peer,              \* another client of the same database, and its call in progress
    served             \* the requests the server has processed, in order

vars == <<max_retries, connection_timeout, selector_default, pc, op, frame, request, rt,
          try_n, log, outcomes, result, changed, at_start, store, peer, served>>

\* what lies beyond the transport
world == <<store, peer, served>>

----------------------------------------------------------------------------
(* Bounds of the model. *)

MaxRetriesArg == 2      \* set_max_retries is called with -1 .. MaxRetriesArg
MaxVal == 2             \* document values are 1 .. MaxVal
MaxRows == 1            \* _all_docs answers total_rows in 0 .. MaxRows

(* Program constants. *)

DefaultMaxRetries == 3
DefaultTimeout == 3000
DefaultPageSize == 20
AlreadyExistsCode == 412
NotFoundCode == 404

----------------------------------------------------------------------------
(* Python values.  A field name always holds values of one type. *)

None == [None |-> TRUE]
Some(x) == [Some |-> x]
PyBool(b) == [bool |-> b]
PyStr(s) == [str |-> s]
PyList(s) == [list |-> s]

\* {**d1, **d2}
Merge(d1, d2) ==
    [k \in (DOMAIN d1) \cup (DOMAIN d2) |-> IF k \in DOMAIN d2 THEN d2[k] ELSE d1[k]]

\* d[key] = value on a dict
SetItem(d, key, value) ==
    [k \in (DOMAIN d) \cup {key} |-> IF k = key THEN value ELSE d[k]]

EmptyDict == <<>>

----------------------------------------------------------------------------
(* Inputs and transport answers, drawn from small sets. *)

DATABASE == "db"
DOC_ID == "x"

Revs == {"1-a", "2-b"}
Vals == 1 .. MaxVal
DataKeys == {"a", "b"}
DataDocs == UNION {[S -> Vals] : S \in SUBSET DataKeys}
DocsWithRev == {Merge(d, [_rev |-> r]) : d \in DataDocs, r \in Revs}
Documents == DataDocs \cup DocsWithRev

Fields == {"name", "age"}
Exists == [k \in {"$exists"} |-> TRUE]
Preds == {[k \in {"$exists"} |-> FALSE]}
Selectors == UNION {[S -> Preds] : S \in SUBSET Fields}
SortBys == {[name |-> "asc"], [age |-> "desc"]}
Sorts == {<<>>} \cup {<<s>> : s \in SortBys} \cup {<<s, t>> : s, t \in SortBys}

Statuses == {199, 200, 299, 300, 404, 412, 500}
ErrorBodies == {[error |-> "not_found"], [error |-> "conflict"]}

RetryArgs == {-1} \cup (0 .. MaxRetriesArg)

----------------------------------------------------------------------------
(* Requests, outcomes and exceptions.  The exception classes come from the *)
(* package's exceptions module; an exception is modelled by its type and    *)
(* the arguments client.py constructs it with, e.code being the second      *)
(* argument of CouchHTTPError.  The ConnectionError that __couch_query      *)
(* raises is not a CouchHTTPError.  The verbose flag only prints.           *)

Request(endpoint, method, args) ==
    [endpoint |-> endpoint, method |-> method, args |-> args]

NoRequest == Request("", "", None)

CouchHTTPError(content, code) ==
    [type |-> "CouchHTTPError", content |-> content, code |-> code]

\* "Gave up connecting to CouchDB after " + str(try_n) + " tries"
ConnectionError(tries) == [type |-> "ConnectionError", tries |-> tries]

ObjectAlreadyExistsException(message, object) ==
    [type |-> "ObjectAlreadyExistsException", message |-> message, object |-> object]

\* what a step of an operation asks for next
Query(req, fr) == [kind |-> "query", request |-> req, frame |-> fr]
Return(v, fr) == [kind |-> "return", value |-> v, frame |-> fr]
Raise(e, fr) == [kind |-> "raise", exc |-> e, frame |-> fr]

\* what __couch_query gave back
Returned(body) == [kind |-> "return", value |-> body]
Raised(e) == [kind |-> "raise", exc |-> e]
NoOutcome == [kind |-> "none"]

IsCouchHTTPError(out) == out.kind = "raise" /\ out.exc.type = "CouchHTTPError"

EmptyFrame ==
    [document |-> EmptyDict, document_diff |-> EmptyDict, selector |-> EmptyDict,
     limit |-> 0]

DocEndpoint(database, doc_id) == "/" \o database \o "/" \o doc_id

----------------------------------------------------------------------------
(* The document operations.  Each is written as its code between two       *)
(* __couch_query calls: r is the number of round trips finished, out what  *)
(* the last one gave back, fr the locals.                                  *)

Propagate(out, fr) ==
    IF out.kind = "return" THEN Return(out.value, fr) ELSE Raise(out.exc, fr)

get_server_version(o, r, out, fr) ==
    IF r = 0 THEN Query(Request("/", "GET", None), fr)
    ELSE IF out.kind = "raise" THEN Raise(out.exc, fr)
    ELSE IF "version" \in DOMAIN out.value THEN Return(PyStr(out.value["version"]), fr)
    ELSE Return(None, fr)

\* for key in sortby: if not key in selector: selector[key] = {"$exists": True}
AugmentForSortby(selector, sortby) ==
    [k \in (DOMAIN selector) \cup (DOMAIN sortby) |->
        IF k \in DOMAIN selector THEN selector[k] ELSE Exists]

RECURSIVE AugmentSelector(_, _)
\* if not sort is None: for sortby in sort: ...
AugmentSelector(selector, sort) ==
    IF sort = None THEN selector
    ELSE IF Len(sort.Some) = 0 THEN selector
    ELSE AugmentSelector(AugmentForSortby(selector, Head(sort.Some)),
                         Some(Tail(sort.Some)))

MangoExtras(fields, sort) ==
    Merge(IF sort = None THEN EmptyDict ELSE [sort |-> sort.Some],
          IF fields = None THEN EmptyDict ELSE [fields |-> fields.Some])

find(o, r, out, fr) ==
    IF r = 0 THEN
        LET selector == AugmentSelector(fr.selector, o.sort)
            mango == Merge([selector |-> selector,
                            skip |-> o.page * o.page_size,
                            limit |-> o.page_size],
                           MangoExtras(o.fields, o.sort))
        IN Query(Request("/" \o o.database \o "/_find", "POST", mango),
                 [fr EXCEPT !.selector = selector])
    ELSE IF out.kind = "raise" THEN Raise(out.exc, fr)
    ELSE Return(PyList(out.value["docs"]), fr)

\* variant: one row of total_rows is taken not to be a document
find_all_short(o, r, out, fr) ==
    IF r = 0 THEN Query(Request("/" \o o.database \o "/_all_docs", "GET", None), fr)
    ELSE IF out.kind = "raise" THEN Raise(out.exc, fr)
    ELSE IF r = 1 THEN
        LET limit == out.value["total_rows"] - 1
            selector == AugmentSelector(fr.selector, o.sort)
            mango == Merge([selector |-> selector, limit |-> limit],
                           MangoExtras(o.fields, o.sort))
        IN Query(Request("/" \o o.database \o "/_find", "POST", mango),
                 [fr EXCEPT !.selector = selector, !.limit = limit])
    ELSE Return(PyList(out.value["docs"]), fr)

\* variant: total_rows is read but no limit is sent
find_all_unlimited(o, r, out, fr) ==
    IF r = 0 THEN Query(Request("/" \o o.database \o "/_all_docs", "GET", None), fr)
    ELSE IF out.kind = "raise" THEN Raise(out.exc, fr)
    ELSE IF r = 1 THEN
        LET limit == out.value["total_rows"]
            selector == AugmentSelector(fr.selector, o.sort)
            mango == Merge([selector |-> selector], MangoExtras(o.fields, o.sort))
        IN Query(Request("/" \o o.database \o "/_find", "POST", mango),
                 [fr EXCEPT !.selector = selector, !.limit = limit])
    ELSE Return(PyList(out.value["docs"]), fr)

find_all(o, r, out, fr) ==
    IF r = 0 THEN Query(Request("/" \o o.database \o "/_all_docs", "GET", None), fr)
    ELSE IF out.kind = "raise" THEN Raise(out.exc, fr)
    ELSE IF r = 1 THEN
        LET limit == out.value["total_rows"]
            selector == AugmentSelector(fr.selector, o.sort)
            mango == Merge([selector |-> selector, limit |-> limit],
                           MangoExtras(o.fields, o.sort))
        IN Query(Request("/" \o o.database \o "/_find", "POST", mango),
                 [fr EXCEPT !.selector = selector, !.limit = limit])
    ELSE Return(PyList(out.value["docs"]), fr)

\* variant: every rejection of the PUT is re-typed
create_db_except_any(database, e, fr) ==
    Raise(ObjectAlreadyExistsException("Database already exists", database), fr)

\* except CouchHTTPError as e: if e.code == 412: raise ObjectAlreadyExistsException(...)
\*                             raise e
create_db_except(database, e, fr) ==
    IF e.code = AlreadyExistsCode
    THEN Raise(ObjectAlreadyExistsException("Database already exists", database), fr)
    ELSE Raise(e, fr)

create_db(o, r, out, fr) ==
    IF r = 0 THEN
        LET options == Merge(Merge([partitioned |-> o.partitioned],
                                   IF o.shards = None THEN EmptyDict
                                   ELSE [q |-> o.shards.Some]),
                             IF o.replicas = None THEN EmptyDict
                             ELSE [n |-> o.replicas.Some])
        IN Query(Request("/" \o o.database, "PUT", options), fr)
    ELSE IF out.kind = "return" THEN Return(PyBool(TRUE), fr)
    ELSE IF IsCouchHTTPError(out) THEN create_db_except(o.database, out.exc, fr)
    ELSE Raise(out.exc, fr)

delete_db(o, r, out, fr) ==
    IF r = 0 THEN Query(Request("/" \o o.database, "DELETE", None), fr)
    ELSE Propagate(out, fr)

get_document(o, r, out, fr) ==
    IF r = 0 THEN Query(Request(DocEndpoint(o.database, o.doc_id), "GET", None), fr)
    ELSE Propagate(out, fr)

\* variant: the test of the status code is inverted
delete_document_except_inverted(strict, e, fr) ==
    IF strict \/ e.code = NotFoundCode THEN Raise(e, fr) ELSE Return(PyBool(FALSE), fr)

\* except CouchHTTPError as e: if strict or (not e.code == 404): raise e
\*                             else: return False
delete_document_except(strict, e, fr) ==
    IF strict \/ ~(e.code = NotFoundCode) THEN Raise(e, fr) ELSE Return(PyBool(FALSE), fr)

delete_document(o, r, out, fr) ==
    IF r = 0 THEN Query(Request(DocEndpoint(o.database, o.doc_id), "GET", None), fr)
    ELSE IF IsCouchHTTPError(out) THEN delete_document_except(o.strict, out.exc, fr)
    ELSE IF out.kind = "raise" THEN Raise(out.exc, fr)
    ELSE IF r = 1 THEN
        LET document == out.value
            rev_str == "?rev=" \o document["_rev"]
        IN Query(Request(DocEndpoint(o.database, o.doc_id) \o rev_str, "DELETE", None),
                 [fr EXCEPT !.document = document])
    ELSE Return(out.value, fr)

\* variant: strict is not consulted
put_document_fetches_on_overwrite(overwrite, strict) == overwrite

\* if overwrite and not strict:
put_document_fetches(overwrite, strict) == overwrite /\ ~strict

\* variant: the fetched revision is not written into the document
StampRevision_skipped(document, in_document) == document

\* variant: document.setdefault("_rev", in_document["_rev"])
StampRevision_setdefault(document, in_document) ==
    IF "_rev" \in DOMAIN document THEN document
    ELSE SetItem(document, "_rev", in_document["_rev"])

\* document["_rev"] = in_document["_rev"]
StampRevision(document, in_document) == SetItem(document, "_rev", in_document["_rev"])

put_document(o, r, out, fr) ==
    LET put(document) ==
            Query(Request(DocEndpoint(o.database, o.doc_id), "PUT", document),
                  [fr EXCEPT !.document = document])
    IN  IF r = 0 THEN
            IF put_document_fetches(o.overwrite, o.strict)
            THEN Query(Request(DocEndpoint(o.database, o.doc_id), "GET", None), fr)
            ELSE put(fr.document)
        ELSE IF r = 1 /\ put_document_fetches(o.overwrite, o.strict) THEN
            IF out.kind = "return"
            THEN put(StampRevision(fr.document, out.value))
            ELSE IF IsCouchHTTPError(out)
            THEN IF ~(out.exc.code = NotFoundCode) THEN Raise(out.exc, fr)
                 ELSE put(fr.document)
            ELSE Raise(out.exc, fr)
        ELSE Propagate(out, fr)

\* variant: a non-strict call swallows every rejection of the fetch
patch_document_reraises_when_strict(strict, e) == strict

\* except CouchHTTPError as e: if strict or (not e.code == 404): raise e
patch_document_reraises(strict, e) == strict \/ ~(e.code = NotFoundCode)

\* variant: {**document_diff, **document}
MergedDocument_reversed(document, document_diff) == Merge(document_diff, document)

\* merged_document = {**document, **document_diff}
MergedDocument(document, document_diff) == Merge(document, document_diff)

patch_document(o, r, out, fr) ==
    LET put(document) ==
            Query(Request(DocEndpoint(o.database, o.doc_id), "PUT",
                          MergedDocument(document, o.document_diff)),
                  [fr EXCEPT !.document = document])
    IN  IF r = 0
        THEN Query(Request(DocEndpoint(o.database, o.doc_id), "GET", None),
                   [fr EXCEPT !.document = EmptyDict])
        ELSE IF r = 1 THEN
            IF out.kind = "return" THEN put(out.value)
            ELSE IF IsCouchHTTPError(out)
            THEN IF patch_document_reraises(o.strict, out.exc) THEN Raise(out.exc, fr)
                 ELSE put(fr.document)
            ELSE Raise(out.exc, fr)
        ELSE Propagate(out, fr)

Body(o, r, out, fr) ==
    CASE o.name = "get_server_version" -> get_server_version(o, r, out, fr)
      [] o.name = "find" -> find(o, r, out, fr)
      [] o.name = "find_all" -> find_all(o, r, out, fr)
      [] o.name = "create_db" -> create_db(o, r, out, fr)
      [] o.name = "delete_db" -> delete_db(o, r, out, fr)
      [] o.name = "get_document" -> get_document(o, r, out, fr)
      [] o.name = "delete_document" -> delete_document(o, r, out, fr)
      [] o.name = "put_document" -> put_document(o, r, out, fr)
      [] o.name = "patch_document" -> patch_document(o, r, out, fr)

----------------------------------------------------------------------------
(* The transport: what an attempt of a request can be answered with. *)

ResponseBodies(req, status) ==
    IF ~(status >= 200 /\ status < 300) THEN ErrorBodies
    ELSE IF req.method = "GET" /\ req.endpoint = "/"
        THEN {[version |-> "3.3.3"], EmptyDict}
    ELSE IF req.method = "GET" /\ req.endpoint = "/" \o DATABASE \o "/_all_docs"
        THEN {[total_rows |-> n] : n \in 0 .. MaxRows}
    ELSE IF req.method = "POST"
        THEN {[docs |-> <<>>], [docs |-> <<[_rev |-> "1-a", a |-> 1]>>]}
    ELSE IF req.method = "GET" THEN DocsWithRev
    ELSE {[ok |-> TRUE]}

----------------------------------------------------------------------------
(* The server behind the transport: a database of documents, each with the *)
(* revision the server gave it.  It accepts a PUT or a DELETE of a stored   *)
(* document only with that revision, and gives every accepted write a new   *)
(* one.                                                                     *)

IdOrder == <<"x", "y">>
Ids == {IdOrder[i] : i \in 1 .. Len(IdOrder)}
RevNames == <<"1-a", "2-b", "3-c", "4-d", "5-e", "6-f", "7-g", "8-h", "9-i">>

EmptyStore == <<>>

\* what the server has processed: the number of accepted writes, the last
\* PUT (who sent it, whether it was accepted, after how many writes), the
\* number of writes each client's last GET came after, and the documents
\* that matched the last _find with the number of writes it came after
NothingServed ==
    [writes |-> 0,
     put |-> [by |-> "", accepted |-> FALSE, at |-> 0],
     got |-> [client |-> 0, peer |-> 0],
     found |-> [docs |-> <<>>, at |-> 0]]

Reply(status, body, st, sv) ==
    [status |-> status, body |-> body, store |-> st, served |-> sv]

RevOf(document) == IF "_rev" \in DOMAIN document THEN Some(document["_rev"]) ELSE None

\* the revision check of a write
Accepts(st, id, rev) ==
    IF id \in DOMAIN st THEN rev = Some(st[id]["_rev"]) ELSE rev = None

Remove(st, id) == [k \in (DOMAIN st) \ {id} |-> st[k]]

ServeGet(st, sv, id, by) ==
    LET sv2 == [sv EXCEPT !.got[by] = sv.writes]
    IN IF id \in DOMAIN st THEN Reply(200, st[id], st, sv2)
       ELSE Reply(404, [error |-> "not_found"], st, sv2)

ServePut(st, sv, id, document, by) ==
    LET ok == Accepts(st, id, RevOf(document))
        sv2 == [sv EXCEPT !.put = [by |-> by, accepted |-> ok, at |-> sv.writes],
                          !.writes = IF ok THEN @ + 1 ELSE @]
        stored == SetItem(document, "_rev", RevNames[sv.writes + 1])
    IN IF ok THEN Reply(201, [ok |-> TRUE], SetItem(st, id, stored), sv2)
       ELSE Reply(409, [error |-> "conflict"], st, sv2)

ServeDelete(st, sv, id, rev, by) ==
    IF id \notin DOMAIN st THEN Reply(404, [error |-> "not_found"], st, sv)
    ELSE IF Accepts(st, id, Some(rev))
        THEN Reply(200, [ok |-> TRUE], Remove(st, id), [sv EXCEPT !.writes = @ + 1])
    ELSE Reply(409, [error |-> "conflict"], st, sv)

ServeAllDocs(st, sv, by) ==
    Reply(200, [total_rows |-> Cardinality(DOMAIN st)], st,
          [sv EXCEPT !.got[by] = sv.writes])

\* a selector of {key: {"$exists": b}} terms
Matches(document, selector) ==
    \A k \in DOMAIN selector : (k \in DOMAIN document) = selector[k]["$exists"]

RECURSIVE Scan(_, _, _)
Scan(st, selector, ids) ==
    IF ids = <<>> THEN <<>>
    ELSE LET rest == Scan(st, selector, Tail(ids))
         IN IF Head(ids) \in DOMAIN st /\ Matches(st[Head(ids)], selector)
            THEN <<st[Head(ids)]>> \o rest ELSE rest

ServeFind(st, sv, mango) ==
    LET matching == Scan(st, mango["selector"], IdOrder)
        skip == IF "skip" \in DOMAIN mango THEN mango["skip"] ELSE 0
        limit == IF "limit" \in DOMAIN mango THEN mango["limit"] ELSE 25
        last == IF Len(matching) < skip + limit THEN Len(matching) ELSE skip + limit
    IN Reply(200, [docs |-> SubSeq(matching, skip + 1, last)], st,
             [sv EXCEPT !.found = [docs |-> matching, at |-> sv.writes]])

Serve(st, sv, req, by) ==
    LET doc_ids == {i \in Ids : req.endpoint = DocEndpoint(DATABASE, i)}
        del_args == {a \in Ids \X {RevNames[n] : n \in 1 .. Len(RevNames)} :
                        req.endpoint = DocEndpoint(DATABASE, a[1]) \o "?rev=" \o a[2]}
    IN IF req.method = "GET" /\ doc_ids # {}
           THEN ServeGet(st, sv, CHOOSE i \in doc_ids : TRUE, by)
       ELSE IF req.method = "PUT" /\ doc_ids # {}
           THEN ServePut(st, sv, CHOOSE i \in doc_ids : TRUE, req.args, by)
       ELSE IF req.method = "DELETE" /\ del_args # {}
           THEN LET a == CHOOSE a \in del_args : TRUE
                IN ServeDelete(st, sv, a[1], a[2], by)
       ELSE IF req.method = "GET" /\ req.endpoint = "/" \o DATABASE \o "/_all_docs"
           THEN ServeAllDocs(st, sv, by)
       ELSE IF req.method = "POST" /\ req.endpoint = "/" \o DATABASE \o "/_find"
           THEN ServeFind(st, sv, req.args)
       ELSE Reply(400, [error |-> "bad_request"], st, sv)

----------------------------------------------------------------------------
(* The public calls. *)

NoPeer == [pc |-> "idle"]

Options == {None, Some(2)}

FindCalls(given, selectors, fieldss, sorts, pages) ==
    {[name |-> "find", database |-> DATABASE, given |-> g, selector |-> sel,
      fields |-> f, sort |-> srt, page |-> p, page_size |-> DefaultPageSize] :
        g \in given, sel \in selectors, f \in fieldss, srt \in sorts, p \in pages}

FindAllCalls(given, selectors, fieldss, sorts) ==
    {[name |-> "find_all", database |-> DATABASE, given |-> g, selector |-> sel,
      fields |-> f, sort |-> srt] :
        g \in given, sel \in selectors, f \in fieldss, srt \in sorts}

CreateDbCalls ==
    {[name |-> "create_db", database |-> DATABASE, shards |-> q, replicas |-> n,
      partitioned |-> part] : q \in Options, n \in Options, part \in BOOLEAN}

DeleteDocumentCalls ==
    {[name |-> "delete_document", database |-> DATABASE, doc_id |-> DOC_ID,
      strict |-> st] : st \in BOOLEAN}

PutDocumentCalls(documents) ==
    {[name |-> "put_document", database |-> DATABASE, doc_id |-> DOC_ID,
      document |-> d, overwrite |-> ow, strict |-> st] :
        d \in documents, ow \in BOOLEAN, st \in BOOLEAN}

PatchDocumentCalls(documents) ==
    {[name |-> "patch_document", database |-> DATABASE, doc_id |-> DOC_ID,
      document_diff |-> d, strict |-> st] : d \in documents, st \in BOOLEAN}

\* every public operation, the document and query arguments from a few values
Calls ==
    {[name |-> "get_server_version"]}
    \cup FindCalls({TRUE}, {EmptyDict}, {None, Some(<<"name">>)}, {None}, {0, 1})
    \cup FindAllCalls({TRUE}, {EmptyDict}, {None, Some(<<"name">>)}, {None})
    \cup CreateDbCalls
    \cup {[name |-> "delete_db", database |-> DATABASE]}
    \cup {[name |-> "get_document", database |-> DATABASE, doc_id |-> DOC_ID]}
    \cup DeleteDocumentCalls
    \cup PutDocumentCalls({[a |-> 1], [_rev |-> "2-b", a |-> 1]})
    \cup PatchDocumentCalls({[a |-> 1], [_rev |-> "2-b", a |-> 1]})

\* an omitted selector is the function's default dict, a given one the caller's
UsesDefault(o) == o.name \in {"find", "find_all"} /\ ~o.given

FrameAtCall(o) ==
    [EmptyFrame EXCEPT
        !.selector = IF o.name \in {"find", "find_all"}
                     THEN (IF o.given THEN o.selector ELSE selector_default[o.name])
                     ELSE EmptyDict,
        !.document = IF o.name = "put_document" THEN o.document ELSE EmptyDict,
        !.document_diff = IF o.name = "patch_document" THEN o.document_diff
                          ELSE EmptyDict]

Config(retries, timeout) == [max_retries |-> retries, timeout |-> timeout]
NoConfig == Config(0, 0)

\* variant: try_n is kept from one __couch_query call to the next
Advance_keeps_try_n(o, r, step) ==
    /\ frame' = step.frame
    /\ selector_default' =
          IF UsesDefault(o) THEN [selector_default EXCEPT ![o.name] = step.frame.selector]
          ELSE selector_default
    /\ IF step.kind = "query"
       THEN /\ pc' = "query"
            /\ request' = step.request
            /\ rt' = r + 1
            /\ result' = NoOutcome
            /\ at_start' = Config(max_retries, connection_timeout)
            /\ UNCHANGED try_n
       ELSE /\ pc' = "done"
            /\ result' = IF step.kind = "return" THEN Returned(step.value)
                         ELSE Raised(step.exc)
            /\ UNCHANGED <<request, try_n, rt, at_start>>

\* the operation runs on to its next __couch_query call, or to its end
Advance(o, r, step) ==
    /\ frame' = step.frame
    /\ selector_default' =
          IF UsesDefault(o) THEN [selector_default EXCEPT ![o.name] = step.frame.selector]
          ELSE selector_default
    /\ IF step.kind = "query"
       THEN /\ pc' = "query"
            /\ request' = step.request
            /\ try_n' = 0
            /\ rt' = r + 1
            /\ result' = NoOutcome
            /\ at_start' = Config(max_retries, connection_timeout)
       ELSE /\ pc' = "done"
            /\ result' = IF step.kind = "return" THEN Returned(step.value)
                         ELSE Raised(step.exc)
            /\ UNCHANGED <<request, try_n, rt, at_start>>

Call(o) ==
    /\ pc = "idle"
    /\ op' = o
    /\ log' = <<>>
    /\ outcomes' = <<>>
    /\ changed' = FALSE
    /\ Advance(o, 0, Body(o, 0, NoOutcome, FrameAtCall(o)))
    /\ UNCHANGED <<max_retries, connection_timeout>>
    /\ UNCHANGED world

\* the operation hands its result to the caller, who may call again
ReturnToCaller ==
    /\ pc = "done"
    /\ pc' = "idle"
    /\ op' = [name |-> "none"]
    /\ frame' = EmptyFrame
    /\ request' = NoRequest
    /\ rt' = 0
    /\ try_n' = 0
    /\ log' = <<>>
    /\ outcomes' = <<>>
    /\ result' = NoOutcome
    /\ changed' = FALSE
    /\ at_start' = NoConfig
    /\ UNCHANGED <<max_retries, connection_timeout, selector_default>>
    /\ UNCHANGED world

set_max_retries(n) ==
    /\ max_retries' = n
    /\ changed' = (changed \/ (pc # "idle" /\ n # max_retries))
    /\ UNCHANGED <<connection_timeout, selector_default, pc, op, frame, request, rt, try_n,
                   log, outcomes, result, at_start>>
    /\ UNCHANGED world

set_timeout(timeout) ==
    /\ connection_timeout' = timeout
    /\ UNCHANGED <<max_retries, selector_default, pc, op, frame, request, rt, try_n, log,
                   outcomes, result, changed, at_start>>
    /\ UNCHANGED world

----------------------------------------------------------------------------
(* __couch_query: one step per pass of the while loop. *)

\* variant: while try_n <= self.__max_retries
MayTry_inclusive(n, limit) == n <= limit

\* while try_n < self.__max_retries
MayTry(n, limit) == n < limit

\* response.status_code >= 200 and response.status_code < 300
IsSuccess(status_code) == status_code >= 200 /\ status_code < 300

\* an attempt: session.get/put/post/delete(..., timeout=self.__connection_timeout)
Transient ==
    [rt |-> rt, request |-> request, timeout |-> connection_timeout, status |-> 0,
     body |-> None]
Answered(status, body) ==
    [rt |-> rt, request |-> request, timeout |-> connection_timeout, status |-> status,
     body |-> body]

\* except requests.exceptions.ConnectionError: try_n += 1
AttemptRefused ==
    /\ pc = "query"
    /\ MayTry(try_n, max_retries)
    /\ log' = Append(log, Transient)
    /\ try_n' = try_n + 1
    /\ UNCHANGED <<max_retries, connection_timeout, selector_default, pc, op, frame,
                   request, rt, outcomes, result, changed, at_start>>
    /\ UNCHANGED world

\* variant: the Timeout handler does not count the try
AttemptTimedOut_uncounted ==
    /\ pc = "query"
    /\ MayTry(try_n, max_retries)
    /\ log' = Append(log, Transient)
    /\ UNCHANGED <<max_retries, connection_timeout, selector_default, pc, op, frame,
                   request, rt, try_n, outcomes, result, changed, at_start>>
    /\ UNCHANGED world

\* except requests.exceptions.Timeout: try_n += 1
AttemptTimedOut ==
    /\ pc = "query"
    /\ MayTry(try_n, max_retries)
    /\ log' = Append(log, Transient)
    /\ try_n' = try_n + 1
    /\ UNCHANGED <<max_retries, connection_timeout, selector_default, pc, op, frame,
                   request, rt, outcomes, result, changed, at_start>>
    /\ UNCHANGED world

\* variant: a rejection is counted as a failed try and the request repeated
AttemptAnswered_retried(status, body) ==
    /\ pc = "query"
    /\ MayTry(try_n, max_retries)
    /\ log' = Append(log, Answered(status, body))
    /\ IF IsSuccess(status)
       THEN /\ outcomes' = Append(outcomes, Returned(body))
            /\ Advance(op, rt, Body(op, rt, Returned(body), frame))
       ELSE /\ try_n' = try_n + 1
            /\ UNCHANGED <<selector_default, pc, frame, request, rt, outcomes, result,
                           at_start>>
    /\ UNCHANGED <<max_retries, connection_timeout, op, changed>>
    /\ UNCHANGED world

\* the transport completes: return response.json() or raise CouchHTTPError
Complete(status, body) ==
    /\ pc = "query"
    /\ MayTry(try_n, max_retries)
    /\ log' = Append(log, Answered(status, body))
    /\ LET out == IF IsSuccess(status) THEN Returned(body)
                  ELSE Raised(CouchHTTPError(body, status))
       IN /\ outcomes' = Append(outcomes, out)
          /\ Advance(op, rt, Body(op, rt, out, frame))
    /\ UNCHANGED <<max_retries, connection_timeout, op, changed>>

\* the transport completes with an answer of the environment's choice
AttemptAnswered(status, body) ==
    /\ Complete(status, body)
    /\ UNCHANGED world

\* variant: the message names the configured limit, str(self.__max_retries)
GiveUp_names_limit ==
    /\ pc = "query"
    /\ ~MayTry(try_n, max_retries)
    /\ outcomes' = Append(outcomes, Raised(ConnectionError(max_retries)))
    /\ Advance(op, rt, Body(op, rt, Raised(ConnectionError(max_retries)), frame))
    /\ UNCHANGED <<max_retries, connection_timeout, op, log, changed>>
    /\ UNCHANGED world

\* the loop ends: raise ConnectionError("Gave up ... after " + str(try_n) + " tries")
GiveUp ==
    /\ pc = "query"
    /\ ~MayTry(try_n, max_retries)
    /\ outcomes' = Append(outcomes, Raised(ConnectionError(try_n)))
    /\ Advance(op, rt, Body(op, rt, Raised(ConnectionError(try_n)), frame))
    /\ UNCHANGED <<max_retries, connection_timeout, op, log, changed>>
    /\ UNCHANGED world

\* the transport delivers the request and the server answers it
AttemptServed ==
    LET s == Serve(store, served, request, "client")
    IN /\ Complete(s.status, s.body)
       /\ store' = s.store
       /\ served' = s.served
       /\ UNCHANGED peer

(* Another client of the same database, running the same operations; its    *)
(* requests always reach the server.                                        *)

PeerAfter(o, r, step) ==
    IF step.kind = "query"
    THEN [pc |-> "query", op |-> o, frame |-> step.frame, request |-> step.request,
          rt |-> r + 1, result |-> NoOutcome]
    ELSE [pc |-> "done", op |-> o, frame |-> step.frame, request |-> NoRequest,
          rt |-> r,
          result |-> IF step.kind = "return" THEN Returned(step.value)
                     ELSE Raised(step.exc)]

PeerCall(o) ==
    /\ peer.pc = "idle"
    /\ peer' = PeerAfter(o, 0, Body(o, 0, NoOutcome, FrameAtCall(o)))
    /\ UNCHANGED <<max_retries, connection_timeout, selector_default, pc, op, frame,
                   request, rt, try_n, log, outcomes, result, changed, at_start, store,
                   served>>

PeerServed ==
    /\ peer.pc = "query"
    /\ LET s == Serve(store, served, peer.request, "peer")
           out == IF IsSuccess(s.status) THEN Returned(s.body)
                  ELSE Raised(CouchHTTPError(s.body, s.status))
       IN /\ peer' = PeerAfter(peer.op, peer.rt, Body(peer.op, peer.rt, out, peer.frame))
          /\ store' = s.store
          /\ served' = s.served
    /\ UNCHANGED <<max_retries, connection_timeout, selector_default, pc, op, frame,
                   request, rt, try_n, log, outcomes, result, changed, at_start>>

PeerReturn ==
    /\ peer.pc = "done"
    /\ peer' = NoPeer
    /\ UNCHANGED <<max_retries, connection_timeout, selector_default, pc, op, frame,
                   request, rt, try_n, log, outcomes, result, changed, at_start, store,
                   served>>

----------------------------------------------------------------------------

Init ==
    /\ max_retries = DefaultMaxRetries
    /\ connection_timeout = DefaultTimeout
    /\ selector_default = [find |-> EmptyDict, find_all |-> EmptyDict]
    /\ pc = "idle"
    /\ op = [name |-> "none"]
    /\ frame = EmptyFrame
    /\ request = NoRequest
    /\ rt = 0
    /\ try_n = 0
    /\ log = <<>>
    /\ outcomes = <<>>
    /\ result = NoOutcome
    /\ changed = FALSE
    /\ at_start = NoConfig
    /\ store = EmptyStore
    /\ peer = NoPeer
    /\ served = NothingServed

Next ==
    \/ \E o \in Calls : Call(o)
    \/ ReturnToCaller
    \/ \E n \in RetryArgs : set_max_retries(n)
    \/ AttemptRefused
    \/ AttemptTimedOut
    \/ \E status \in Statuses : \E body \in ResponseBodies(request, status) :
          AttemptAnswered(status, body)
    \/ GiveUp

Spec == Init /\ [][Next]_vars

(* The document helpers over every document, with the configuration left as *)
(* constructed.                                                             *)

DocumentCalls ==
    DeleteDocumentCalls \cup PutDocumentCalls(Documents) \cup PatchDocumentCalls(Documents)

NextDocs ==
    \/ \E o \in DocumentCalls : Call(o)
    \/ ReturnToCaller
    \/ AttemptRefused
    \/ AttemptTimedOut
    \/ \E status \in Statuses : \E body \in ResponseBodies(request, status) :
          AttemptAnswered(status, body)
    \/ GiveUp

SpecDocs == Init /\ [][NextDocs]_vars

(* The queries over every selector and sort, with the selector given or     *)
(* omitted, with the configuration left as constructed.                     *)

QueryCalls ==
    FindCalls({FALSE}, {EmptyDict}, {None}, {None} \cup {Some(x) : x \in Sorts}, {0})
    \cup FindCalls({TRUE}, Selectors, {None}, {None} \cup {Some(x) : x \in Sorts}, {0})
    \cup FindAllCalls({FALSE}, {EmptyDict}, {None}, {None} \cup {Some(x) : x \in Sorts})
    \cup FindAllCalls({TRUE}, Selectors, {None}, {None} \cup {Some(x) : x \in Sorts})

NextFind ==
    \/ \E o \in QueryCalls : Call(o)
    \/ ReturnToCaller
    \/ AttemptRefused
    \/ AttemptTimedOut
    \/ \E status \in Statuses : \E body \in ResponseBodies(request, status) :
          AttemptAnswered(status, body)
    \/ GiveUp

SpecFind == Init /\ [][NextFind]_vars

(* The configuration set from another thread at any time, also while a      *)
(* request is in flight.                                                    *)

Timeouts == {DefaultTimeout, 1000}

ConfigCalls ==
    {[name |-> "get_server_version"],
     [name |-> "delete_db", database |-> DATABASE]}

NextConfig ==
    \/ \E o \in ConfigCalls : Call(o)
    \/ ReturnToCaller
    \/ \E n \in RetryArgs : set_max_retries(n)
    \/ \E timeout \in Timeouts : set_timeout(timeout)
    \/ AttemptRefused
    \/ AttemptTimedOut
    \/ \E status \in Statuses : \E body \in ResponseBodies(request, status) :
          AttemptAnswered(status, body)
    \/ GiveUp

SpecConfig == Init /\ [][NextConfig]_vars

(* Two clients writing the same document of a database whose server checks  *)
(* revisions; an attempt that fails did not reach the server.               *)

MaxWrites == 3          \* calls that write start while fewer writes were accepted

WriterCalls ==
    {[name |-> "put_document", database |-> DATABASE, doc_id |-> DOC_ID,
      document |-> d, overwrite |-> TRUE, strict |-> FALSE] :
        d \in {[a |-> 1], [_rev |-> "2-b", a |-> 1]}}
    \cup PatchDocumentCalls({[b |-> 1], [_rev |-> "1-a", b |-> 1]})

PeerWriterCalls ==
    {[name |-> "put_document", database |-> DATABASE, doc_id |-> DOC_ID,
      document |-> [a |-> 2], overwrite |-> TRUE, strict |-> FALSE]}

NextWriters ==
    \/ \E o \in WriterCalls : served.writes < MaxWrites /\ Call(o)
    \/ ReturnToCaller
    \/ AttemptRefused
    \/ AttemptTimedOut
    \/ AttemptServed
    \/ GiveUp
    \/ \E o \in PeerWriterCalls : served.writes < MaxWrites /\ PeerCall(o)
    \/ PeerServed
    \/ PeerReturn

SpecWriters == Init /\ [][NextWriters]_vars

(* find_all over a database that another client inserts documents into and  *)
(* deletes them from; an attempt that fails did not reach the server.       *)

MaxScanWrites == 2      \* the other client starts a call while fewer writes were accepted

ScanSelectors == {EmptyDict, [k \in {"a"} |-> Exists], [k \in {"b"} |-> [j \in {"$exists"} |-> FALSE]]}
ScanSorts == {None, Some(<<[a |-> "asc"]>>)}

ScanCalls == FindAllCalls({TRUE}, ScanSelectors, {None}, ScanSorts)

PeerScanCalls ==
    {[name |-> "put_document", database |-> DATABASE, doc_id |-> i,
      document |-> d, overwrite |-> TRUE, strict |-> FALSE] :
        i \in Ids, d \in {[a |-> 1], [b |-> 1]}}
    \cup {[name |-> "delete_document", database |-> DATABASE, doc_id |-> i,
           strict |-> FALSE] : i \in Ids}

NextScan ==
    \/ \E o \in ScanCalls : Call(o)
    \/ ReturnToCaller
    \/ AttemptRefused
    \/ AttemptTimedOut
    \/ AttemptServed
    \/ GiveUp
    \/ \E o \in PeerScanCalls : served.writes < MaxScanWrites /\ PeerCall(o)
    \/ PeerServed
    \/ PeerReturn

SpecScan == Init /\ [][NextScan]_vars

----------------------------------------------------------------------------
(* What the properties speak of. *)

Attempts == 1 .. Len(log)
AttemptsOf(r) == {i \in Attempts : log[i].rt = r}
IsTransient(i) == log[i].status = 0
IsAnswer(i) == log[i].status # 0
Is2xx(status) == 200 <= status /\ status <= 299
MethodSent(method) == \E i \in Attempts : log[i].request.method = method
Running == pc \in {"query", "done"}
Max(a, b) == IF a >= b THEN a ELSE b

\* C1: with max_retries fixed at N >= 1 and every attempt answered by a
\* connection error or a timeout, an operation never makes more than N
\* attempts, makes them all in its first round trip, and when it ends it has
\* made exactly N and raises the retries-exhausted error.
C1_ExhaustedAfterExactlyN ==
    (Running /\ ~changed /\ max_retries >= 1 /\ \A i \in Attempts : IsTransient(i)) =>
        /\ Len(log) <= max_retries
        /\ \A i \in Attempts : log[i].rt = 1
        /\ pc = "done" =>
              /\ Len(log) = max_retries
              /\ result = Raised(ConnectionError(max_retries))
        /\ Len(log) = max_retries => ~MayTry(try_n, max_retries)
        /\ Len(log) < max_retries => pc = "query"

C1_Witness ==
    /\ pc = "done"
    /\ op.name = "delete_document"
    /\ ~changed
    /\ max_retries = 2
    /\ Len(log) = 2
    /\ \A i \in Attempts : IsTransient(i)
    /\ result = Raised(ConnectionError(2))

\* C2: an attempt answered with a status outside [200, 300) is the last
\* attempt of its request, and __couch_query raises CouchHTTPError with the
\* status code and the body of that answer.
C2_RejectionEndsTheLoop ==
    \A i \in Attempts :
        (IsAnswer(i) /\ ~Is2xx(log[i].status)) =>
            /\ \A j \in Attempts : j > i => log[j].rt > log[i].rt
            /\ Len(outcomes) >= log[i].rt
            /\ outcomes[log[i].rt] = Raised(CouchHTTPError(log[i].body, log[i].status))

C2_Witness ==
    /\ pc = "done"
    /\ op.name = "get_document"
    /\ max_retries = 3
    /\ Len(log) = 2
    /\ IsTransient(1)
    /\ log[2].status = 404
    /\ result = Raised(CouchHTTPError([error |-> "not_found"], 404))

\* C3 as stated: with max_retries fixed at N, a finished __couch_query call
\* has made at most N attempts.
C3_AtMostNAttempts ==
    ~changed => \A r \in 1 .. Len(outcomes) : Cardinality(AttemptsOf(r)) <= max_retries

\* C3, amended: with max_retries fixed at N, a finished __couch_query call has
\* one of the three outcomes and has made at most max(N, 0) attempts; its
\* attempts before the last are transient failures; if its k-th attempt is
\* answered 2xx it returns that body after exactly k attempts, if it is
\* answered otherwise it raises CouchHTTPError, and if no attempt is answered
\* it raises the retries-exhausted error.
C3_BoundedOutcome ==
    ~changed =>
        \A r \in 1 .. Len(outcomes) :
            LET mine == AttemptsOf(r)
                answered == {i \in mine : IsAnswer(i)}
            IN  /\ Cardinality(mine) <= Max(max_retries, 0)
                /\ \A i \in answered : \A j \in mine : j <= i
                /\ \A i \in answered :
                      Is2xx(log[i].status) => outcomes[r] = Returned(log[i].body)
                /\ \A i \in answered :
                      ~Is2xx(log[i].status) => outcomes[r].kind = "raise"
                                               /\ outcomes[r].exc.type = "CouchHTTPError"
                /\ answered = {} => outcomes[r] = Raised(ConnectionError(Cardinality(mine)))

C3_Witness ==
    /\ pc = "done"
    /\ op.name = "get_document"
    /\ ~changed
    /\ max_retries = 2
    /\ Len(log) = 2
    /\ IsTransient(1)
    /\ log[2].status = 200
    /\ outcomes = <<Returned(log[2].body)>>
    /\ result = Returned(log[2].body)

\* C4: create_db raises ObjectAlreadyExistsException exactly when its PUT is
\* answered 412, raises the CouchHTTPError of any other non-2xx answer with
\* its status code, and returns True exactly when the PUT is answered 2xx.
C4_CreateDb ==
    (pc = "done" /\ op.name = "create_db") =>
        /\ (result.kind = "raise" /\ result.exc.type = "ObjectAlreadyExistsException")
              <=> (\E i \in Attempts : log[i].status = 412)
        /\ \A i \in Attempts :
              (IsAnswer(i) /\ ~Is2xx(log[i].status) /\ log[i].status # 412) =>
                  result = Raised(CouchHTTPError(log[i].body, log[i].status))
        /\ (result = Returned(PyBool(TRUE)))
              <=> (\E i \in Attempts : IsAnswer(i) /\ Is2xx(log[i].status))
        /\ \A i \in Attempts : log[i].request.method = "PUT"

C4_Witness ==
    /\ pc = "done"
    /\ op.name = "create_db"
    /\ \E i \in Attempts : log[i].status = 412
    /\ result = Raised(ObjectAlreadyExistsException("Database already exists", DATABASE))

\* C5: when delete_document's fetch is answered 404, no DELETE request is
\* sent; with strict false the call returns False, with strict true it raises
\* the CouchHTTPError of that 404.
C5_DeleteOfMissing ==
    \A i \in Attempts :
        (op.name = "delete_document" /\ log[i].rt = 1 /\ log[i].status = 404) =>
            /\ pc = "done"
            /\ ~MethodSent("DELETE")
            /\ request.method # "DELETE"
            /\ ~op.strict => result = Returned(PyBool(FALSE))
            /\ op.strict => result = Raised(CouchHTTPError(log[i].body, 404))

C5_WitnessTolerant ==
    /\ pc = "done"
    /\ op.name = "delete_document"
    /\ ~op.strict
    /\ \E i \in Attempts : log[i].rt = 1 /\ log[i].status = 404
    /\ result = Returned(PyBool(FALSE))

\* the answer the fetch (the first round trip) got, if it got one
FetchAnswers == {i \in Attempts : log[i].rt = 1 /\ IsAnswer(i)}
DocRequest(method, args) == Request(DocEndpoint(op.database, op.doc_id), method, args)
PutFetches == op.name = "put_document" /\ op.overwrite /\ ~op.strict

\* C6: put_document with overwrite true and strict false: after a fetch
\* answered 2xx the PUT carries the fetched _rev (in place of any the caller
\* supplied) and every other key as supplied; after a fetch answered 404 the
\* PUT carries the document exactly as supplied.
C6_PutStampsFetchedRevision ==
    \A i \in FetchAnswers :
        (PutFetches /\ (Is2xx(log[i].status) \/ log[i].status = 404)) =>
            /\ rt = 2
            /\ request.method = "PUT"
            /\ request.endpoint = DocEndpoint(op.database, op.doc_id)
            /\ \A j \in AttemptsOf(2) : log[j].request = request
            /\ Is2xx(log[i].status) =>
                  /\ DOMAIN request.args = (DOMAIN op.document) \cup {"_rev"}
                  /\ request.args["_rev"] = log[i].body["_rev"]
                  /\ \A k \in (DOMAIN op.document) \ {"_rev"} :
                        request.args[k] = op.document[k]
            /\ log[i].status = 404 => request.args = op.document

\* the caller's _rev is replaced by the fetched one, and the PUT is attempted
C6_Witness ==
    /\ PutFetches
    /\ op.document = [_rev |-> "2-b", a |-> 1, b |-> 2]
    /\ \E i \in FetchAnswers : log[i].status = 200 /\ log[i].body["_rev"] = "1-a"
    /\ \E j \in AttemptsOf(2) :
          log[j].request.args = [_rev |-> "1-a", a |-> 1, b |-> 2]

\* C7: put_document with strict true or overwrite false sends no GET; its
\* one round trip is the PUT of the document as supplied, and a rejection of
\* that PUT is raised to the caller.
C7_PutWithoutFetch ==
    (Running /\ op.name = "put_document" /\ (op.strict \/ ~op.overwrite)) =>
        /\ ~MethodSent("GET")
        /\ rt = 1
        /\ request = DocRequest("PUT", op.document)
        /\ \A i \in Attempts : log[i].request = request
        /\ \A i \in Attempts :
              (IsAnswer(i) /\ ~Is2xx(log[i].status)) =>
                  /\ pc = "done"
                  /\ result = Raised(CouchHTTPError(log[i].body, log[i].status))

C7_Witness ==
    /\ pc = "done"
    /\ op.name = "put_document"
    /\ op.strict
    /\ op.overwrite
    /\ op.document = [_rev |-> "2-b", a |-> 1]
    /\ Len(log) = 1
    /\ log[1].request = DocRequest("PUT", [_rev |-> "2-b", a |-> 1])
    /\ result = Raised(CouchHTTPError([error |-> "conflict"], 500))

\* C8: patch_document PUTs the shallow merge of the fetched document and the
\* diff (the diff's keys with the diff's values, the other fetched keys with
\* the fetched values, no other key); after a fetch answered 404 it PUTs the
\* diff when strict is false, and raises the 404 without a PUT when strict is
\* true.
C8_PatchMerges ==
    \A i \in FetchAnswers :
        op.name = "patch_document" =>
            /\ Is2xx(log[i].status) =>
                  /\ rt = 2
                  /\ request.method = "PUT"
                  /\ request.endpoint = DocEndpoint(op.database, op.doc_id)
                  /\ \A j \in AttemptsOf(2) : log[j].request = request
                  /\ DOMAIN request.args = (DOMAIN log[i].body) \cup (DOMAIN op.document_diff)
                  /\ \A k \in DOMAIN op.document_diff : request.args[k] = op.document_diff[k]
                  /\ \A k \in (DOMAIN log[i].body) \ (DOMAIN op.document_diff) :
                        request.args[k] = log[i].body[k]
            /\ (log[i].status = 404 /\ ~op.strict) =>
                  /\ rt = 2
                  /\ request = DocRequest("PUT", op.document_diff)
                  /\ \A j \in AttemptsOf(2) : log[j].request = request
            /\ (log[i].status = 404 /\ op.strict) =>
                  /\ pc = "done"
                  /\ result = Raised(CouchHTTPError(log[i].body, 404))
                  /\ ~MethodSent("PUT")
                  /\ request.method # "PUT"

\* stored {a: 1, b: 2} at revision 1-a, diff {b: 1}: the PUT carries
\* {_rev: 1-a, a: 1, b: 1}
C8_Witness ==
    /\ op.name = "patch_document"
    /\ op.document_diff = [b |-> 1]
    /\ \E i \in FetchAnswers : log[i].status = 200
                               /\ log[i].body = [_rev |-> "1-a", a |-> 1, b |-> 2]
    /\ \E j \in AttemptsOf(2) :
          log[j].request = DocRequest("PUT", [_rev |-> "1-a", a |-> 1, b |-> 1])

RECURSIVE SortKeys(_)
SortKeys(sort) ==
    IF Len(sort) = 0 THEN {} ELSE (DOMAIN Head(sort)) \cup SortKeys(Tail(sort))

\* C9: the selector of every _find request of a find or find_all call with a
\* sort has exactly the keys of the caller's selector (none, when the caller
\* passes no selector) and of the sort, the caller's keys with the caller's
\* predicates and the others with {"$exists": True}.
C9_SelectorCoversSort ==
    (Running /\ op.name \in {"find", "find_all"} /\ op.sort # None
        /\ request.method = "POST") =>
        LET sent == request.args["selector"]
            callers == IF op.given THEN op.selector ELSE EmptyDict
            keys == SortKeys(op.sort.Some)
        IN  /\ DOMAIN sent = (DOMAIN callers) \cup keys
            /\ \A k \in DOMAIN callers : sent[k] = callers[k]
            /\ \A k \in keys \ (DOMAIN callers) : sent[k] = Exists

\* C9 for the calls that pass a selector: this part holds.
C9_GivenSelectorCoversSort ==
    (op.name \in {"find", "find_all"} /\ op.given) => C9_SelectorCoversSort

\* C10: a round trip that ends in the retries-exhausted error, or in a
\* rejection with a status other than 404 (other than 412 in create_db), is
\* the operation's last: the operation raises that error and no later
\* request is sent.
C10_ErrorsPropagate ==
    \A r \in 1 .. Len(outcomes) :
        LET e == outcomes[r]
            tolerated == IF op.name = "create_db" THEN 412 ELSE 404
        IN  (e.kind = "raise"
                /\ (e.exc.type = "ConnectionError"
                    \/ (e.exc.type = "CouchHTTPError" /\ e.exc.code # tolerated))) =>
                /\ pc = "done"
                /\ result = e
                /\ r = Len(outcomes)
                /\ rt = r
                /\ \A i \in Attempts : log[i].rt <= r

\* non-strict patch_document: the fetch is answered 500 and nothing is PUT
C10_Witness ==
    /\ pc = "done"
    /\ op.name = "patch_document"
    /\ ~op.strict
    /\ \E i \in FetchAnswers : log[i].status = 500
    /\ result.kind = "raise"
    /\ result.exc.type = "CouchHTTPError"
    /\ result.exc.code = 500
    /\ ~MethodSent("PUT")

----------------------------------------------------------------------------
\* what the query executor call in progress (or the last one) gave back
Exhausted(r) == Len(outcomes) >= r /\ outcomes[r].kind = "raise"
                /\ outcomes[r].exc.type = "ConnectionError"

\* C11: a change of max_retries or of the timeout made through the setters
\* while a request is in flight takes effect only on the next request: every
\* attempt of a request is sent with the timeout configured when the request
\* started, the request makes at most the attempts configured at its start,
\* and it gives up only after that many.
C11_ConfigFixedAtStart ==
    (Running /\ rt >= 1) =>
        /\ \A i \in AttemptsOf(rt) : log[i].timeout = at_start.timeout
        /\ Cardinality(AttemptsOf(rt)) <= Max(at_start.max_retries, 0)
        /\ Exhausted(rt) => Cardinality(AttemptsOf(rt)) = Max(at_start.max_retries, 0)

\* C12: delete_document returns False only when its fetch was answered 404;
\* once the fetch has succeeded, a rejection of the DELETE (a 404 included)
\* is raised to the caller, whatever strict is.
C12_FalseOnlyOnFetch404 ==
    (pc = "done" /\ op.name = "delete_document") =>
        /\ result = Returned(PyBool(FALSE)) => \E i \in FetchAnswers : log[i].status = 404
        /\ \A i \in Attempts :
              (log[i].rt = 2 /\ IsAnswer(i) /\ ~Is2xx(log[i].status)) =>
                  result = Raised(CouchHTTPError(log[i].body, log[i].status))

----------------------------------------------------------------------------
(* Against the server. *)

DataOf(document) == [k \in (DOMAIN document) \ {"_rev"} |-> document[k]]
Answered2xx(i) == IsAnswer(i) /\ Is2xx(log[i].status)
NoneExhausted == \A r \in 1 .. Len(outcomes) : ~Exhausted(r)

\* the last write the server processed is the PUT of the client's call
OursWasLast ==
    /\ served.put.by = "client"
    /\ served.writes = served.put.at + (IF served.put.accepted THEN 1 ELSE 0)

\* the document as patch_document holds it after its fetch
PatchBase(i) == IF Answered2xx(i) THEN log[i].body ELSE EmptyDict

\* C13: patch_document modifies the document regardless of _rev: a patch
\* with strict false whose round trips were all answered ends with the stored
\* document equal to the merge of the fetched document and the diff, whatever
\* revision is stored, whatever the diff carries, and whatever another client
\* wrote between the fetch and the PUT.
C13_PatchRegardlessOfRev ==
    (/\ pc = "done"
     /\ op.name = "patch_document"
     /\ ~op.strict
     /\ NoneExhausted
     /\ OursWasLast) =>
        /\ DOC_ID \in DOMAIN store
        /\ \A i \in FetchAnswers :
              DataOf(store[DOC_ID]) = DataOf(MergedDocument(PatchBase(i), op.document_diff))

\* both clients have run put_document on the same id with documents that
\* carry no _rev of their own, each got its fetch and its PUT through to the
\* server, and the client met no transport failure
BothPut ==
    /\ pc = "done"
    /\ op.name = "put_document"
    /\ "_rev" \notin DOMAIN op.document
    /\ MethodSent("PUT")
    /\ \A i \in Attempts : IsAnswer(i)
    /\ peer.pc = "done"
    /\ peer.op.name = "put_document"
    /\ "_rev" \notin DOMAIN peer.op.document
    /\ peer.rt = 2

DocumentOf(who) == IF who = "client" THEN op.document ELSE peer.op.document
ResultOf(who) == IF who = "client" THEN result ELSE peer.result
Other(who) == IF who = "client" THEN "peer" ELSE "client"
Conflict == CouchHTTPError([error |-> "conflict"], 409)

\* C14 (as stated): last writer wins: when two clients run put_document with
\* its default flags on the same id, the document stored at the end is the
\* one whose PUT was sent last, in every interleaving.
C14_LastWriterWins ==
    BothPut =>
        /\ DOC_ID \in DOMAIN store
        /\ DataOf(store[DOC_ID]) = DataOf(DocumentOf(served.put.by))

\* C14 (amended): the document stored at the end is the one of the last PUT
\* the server accepted.  The PUT sent last is accepted, and its document
\* stored, when no write was accepted between its fetch and itself;
\* otherwise it is rejected with 409, its caller gets the CouchHTTPError, and
\* the other client's document stays.
C14_LastAcceptedWins ==
    BothPut =>
        LET last == served.put.by
        IN /\ DOC_ID \in DOMAIN store
           /\ served.put.accepted <=> served.got[last] = served.put.at
           /\ served.put.accepted =>
                 /\ DataOf(store[DOC_ID]) = DataOf(DocumentOf(last))
                 /\ ResultOf(last) = Returned([ok |-> TRUE])
           /\ ~served.put.accepted =>
                 /\ DataOf(store[DOC_ID]) = DataOf(DocumentOf(Other(last)))
                 /\ ResultOf(last) = Raised(Conflict)

C14_Witness ==
    /\ BothPut
    /\ served.put.by = "client"
    /\ ~served.put.accepted
    /\ result = Raised(Conflict)
    /\ DataOf(store[DOC_ID]) = DataOf(peer.op.document)

AllDocsRequest == Request("/" \o DATABASE \o "/_all_docs", "GET", None)
FindEndpoint == "/" \o DATABASE \o "/_find"
FindAllReturned == pc = "done" /\ op.name = "find_all" /\ result.kind = "return"

\* no write was accepted between the client's _all_docs and its _find
NoWriteBetween == served.got.client = served.found.at

\* C15: find_all makes two round trips, GET /{db}/_all_docs and then POST
\* /{db}/_find, and a call that returns has made both; the _find body has the
\* total_rows of the first answer as its limit and no skip; when no document
\* was inserted or deleted between the two, the limit is at least the number
\* of matching documents and the result is every matching document.
C15_FindAllTwoRoundTrips ==
    (Running /\ op.name = "find_all") =>
        /\ rt <= 2
        /\ \A i \in Attempts :
              /\ log[i].rt = 1 => log[i].request = AllDocsRequest
              /\ log[i].rt = 2 =>
                    /\ outcomes[1].kind = "return"
                    /\ log[i].request.method = "POST"
                    /\ log[i].request.endpoint = FindEndpoint
                    /\ "limit" \in DOMAIN log[i].request.args
                    /\ log[i].request.args["limit"] = outcomes[1].value["total_rows"]
                    /\ "skip" \notin DOMAIN log[i].request.args
        /\ FindAllReturned =>
              /\ Len(outcomes) = 2
              /\ \A r \in {1, 2} : \E i \in AttemptsOf(r) : Answered2xx(i)
              /\ NoWriteBetween =>
                    /\ frame.limit >= Len(served.found.docs)
                    /\ result.value = PyList(served.found.docs)

C15_Witness ==
    /\ FindAllReturned
    /\ NoWriteBetween
    /\ Len(log) > 2
    /\ frame.limit = 2
    /\ Len(result.value.list) = 1
    /\ served.found.docs # <<>>

Min(a, b) == IF a <= b THEN a ELSE b

\* C16: find_all is not atomic: it returns the first total_rows (as counted
\* by its _all_docs) of the documents that match at the time of its _find,
\* so it returns fewer documents than match then whenever more match than
\* the database held at the count, which takes a write between the two
\* round trips; the witness is the interleaving in which another client
\* inserts a matching document between them.
C16_ReturnsFirstTotalRows ==
    FindAllReturned =>
        /\ result.value =
              PyList(SubSeq(served.found.docs, 1, Min(frame.limit, Len(served.found.docs))))
        /\ Len(result.value.list) < Len(served.found.docs) => ~NoWriteBetween

C16_WitnessUndercount ==
    /\ FindAllReturned
    /\ Len(result.value.list) < Len(served.found.docs)
    /\ served.put.by = "peer"
    /\ served.put.accepted
    /\ served.got.client <= served.put.at
    /\ served.put.at < served.found.at
    /\ served.writes = served.found.at
    /\ \A i \in DOMAIN served.found.docs :
          \E id \in DOMAIN store : store[id] = served.found.docs[i]

----------------------------------------------------------------------------
\* C17: when the query executor gives up, the attempt count it states is the
\* number of transport attempts made for that request, all of them failed;
\* this holds for every max_retries, also when max_retries is changed during
\* the call; with max_retries fixed at 0 or below no request is sent and the
\* count is 0.
C17_CountIsAttemptsMade ==
    /\ \A r \in 1 .. Len(outcomes) :
          Exhausted(r) =>
              /\ outcomes[r].exc.tries = Cardinality(AttemptsOf(r))
              /\ \A i \in AttemptsOf(r) : IsTransient(i)
    /\ (Running /\ ~changed /\ max_retries <= 0) =>
          /\ log = <<>>
          /\ pc = "done" => result = Raised(ConnectionError(0))

C17_Witness ==
    /\ pc = "done"
    /\ changed
    /\ Exhausted(rt)
    /\ rt = 2
    /\ outcomes[rt].exc.tries = 2
    /\ at_start.max_retries = DefaultMaxRetries
    /\ max_retries = 1

C17_WitnessNoRequest ==
    /\ pc = "done"
    /\ ~changed
    /\ max_retries < 0
    /\ result = Raised(ConnectionError(0))

----------------------------------------------------------------------------
\* C18: the selector augmentation does not leak: a find without a selector
\* and without a sort sends the empty selector, whatever calls came before,
\* and a selector mapping passed by the caller is the same after the call as
\* before it.
C18_NoSelectorLeak ==
    /\ (pc = "query" /\ op.name = "find" /\ ~op.given /\ op.sort = None) =>
          request.args["selector"] = EmptyDict
    /\ (pc = "done" /\ op.name \in {"find", "find_all"} /\ op.given) =>
          frame.selector = op.selector

\* C19: put_document and patch_document leave the mappings they are given
\* unchanged: neither writes a _rev (or anything else) into the caller's
\* document or diff.
C19_ArgumentsUnchanged ==
    /\ (Running /\ op.name = "put_document") => frame.document = op.document
    /\ (Running /\ op.name = "patch_document") => frame.document_diff = op.document_diff

----------------------------------------------------------------------------
SingleRoundTrip ==
    op.name \in {"get_server_version", "find", "create_db", "delete_db", "get_document"}

\* C20 (as stated): with max_retries fixed at N an operation makes at most
\* 2*N transport attempts, at most N when it has a single round trip.
C20_AtMostTwiceN ==
    (Running /\ ~changed) =>
        /\ Len(log) <= 2 * max_retries
        /\ SingleRoundTrip => Len(log) <= max_retries

\* C20 (amended): every round trip has its own retry budget: with max_retries
\* fixed at N, try_n counts only the failed attempts of the round trip in
\* progress, every round trip makes at most max(N, 0) attempts and gives up
\* only after that many, whatever the round trip before it used; an operation
\* has at most two round trips, so it makes at most 2*max(N, 0) attempts, at
\* most max(N, 0) when it has a single round trip.
C20_FreshBudget ==
    (Running /\ ~changed) =>
        LET N == Max(max_retries, 0)
        IN /\ rt <= 2
           /\ SingleRoundTrip => rt <= 1
           /\ \A r \in 1 .. rt :
                 /\ Cardinality(AttemptsOf(r)) <= N
                 /\ Exhausted(r) => Cardinality(AttemptsOf(r)) = N
           /\ pc = "query" => try_n = Cardinality(AttemptsOf(rt))
           /\ Len(log) <= 2 * N
           /\ SingleRoundTrip => Len(log) <= N

C20_Witness ==
    /\ pc = "done"
    /\ ~changed
    /\ max_retries >= 2
    /\ rt = 2
    /\ Cardinality(AttemptsOf(1)) = max_retries
    /\ Cardinality(AttemptsOf(2)) = max_retries
    /\ result.kind = "return"

====
